---- MODULE Spec2Model ----
(***************************************************************************)
(* EduHive: the tutor graph (src/main.py, src/core/graph.py) and the /chat *)
(* endpoint that drives it (src/api/main.py).                              *)
(*                                                                         *)
(* The compiled graph is a LangGraph StateGraph over TutorState with a     *)
(* checkpointer keyed by thread_id = session_id.  One graph.ainvoke call   *)
(* reads the latest checkpoint of the thread, runs the START branch        *)
(* (router_check) as its first super-step, runs the selected node as the   *)
(* next super-step, and writes a checkpoint of the whole channel state     *)
(* after every super-step.  Each await in that call is a point where other *)
(* requests of the same event loop may run.                                *)
(***************************************************************************)
EXTENDS Naturals, Sequences, FiniteSets, TLC

\* ------------------------------------------------------------------ bounds
MaxInvocations == 2     \* graph invocations started, over all sessions

\* ------------------------------------------------------------- vocabulary
\* requests the event loop serves at the same time
Workers == {1, 2}

\* request.session_id: a string the client supplies, None, or the empty string
None == "<None>"
ClientIds == {"s1"}
\* the values uuid4 returns, in the order it returns them
UuidPool == <<"u1">>
GeneratedIds == {UuidPool[i] : i \in 1..Len(UuidPool)}
SessionIds == ClientIds \cup GeneratedIds

Prompts == {"p1", "p2"}
Replies == {"r1"}

\* the nodes add_node registers
Agents == {"classification_agent", "feynman_agent", "teacher_agent", "quiz_agent"}
\* destinations= of classification_agent
DestinationsUnregistered ==
  {"feynman_agent", "teacher_agent", "quiz_agent", "summary_agent"}
Destinations == {"feynman_agent", "teacher_agent", "quiz_agent"}
\* the path_map of add_conditional_edges(START, router_check, [...])
PathMap == {"quiz_agent", "feynman_agent", "teacher_agent", "classification_agent"}
END == "__end__"

HumanMessage(content) == [role |-> "user", content |-> content]
AIMessage(content) == [role |-> "assistant", content |-> content]

\* the graph object: src/main.py compiles it with SqliteSaver(conn), build_graph
\* compiles it with or without a checkpointer, and health_check allows for None
NoGraph == "None"
WithoutCheckpointer == "graph(checkpointer=None)"
WithCheckpointer == "graph(checkpointer=SqliteSaver)"
GraphObjects == {NoGraph, WithoutCheckpointer, WithCheckpointer}

\* TutorState of a thread with no checkpoint: no message, current_agent absent
EmptyState == [messages |-> <<>>]

VARIABLES
  store,      \* thread_id -> channel values of the thread's latest checkpoint
  inv,        \* worker -> the request it is serving
  nextGen,    \* how many session ids uuid4 has generated
  count,      \* session_id -> graph invocations started for it
  completed,  \* session_id -> requests answered with a response
  sequential, \* session_id -> no two of its invocations have overlapped
  lastPut,    \* session_id -> the in-memory state the latest checkpoint write held
  graph,      \* the module-level graph object the endpoints use
  health,     \* the latest answer of GET /health
  accepted,   \* websocket -> accept() has been called on it
  active_connections, \* websocket_manager.manager.active_connections
  bc,         \* the broadcast call in progress on that manager, if any
  prevOp,     \* the connect/disconnect call before the latest one
  lastOp,     \* the latest connect/disconnect call on that manager
  endpoint    \* websocket -> how its websocket_endpoint handler stands
chatVars == <<store, inv, nextGen, count, completed, sequential, lastPut>>
mgrVars == <<accepted, active_connections, bc, prevOp, lastOp>>
auxVars == <<graph, health, mgrVars, endpoint>>
vars == <<chatVars, auxVars>>

IdleInv ==
  [pc |-> "idle", reqSid |-> None, prompt |-> "", session_id |-> "",
   state |-> EmptyState, pre |-> EmptyState, expected |-> EmptyState,
   next |-> END, routes |-> <<>>, handlers |-> <<>>,
   response |-> "", error |-> ""]

InFlight(w) == inv[w].pc \in {"loaded", "running"}

\* ------------------------------------------------------------ the graph

\* router to determine which agent the user will be transferred to
router_check_always_classifier(state) == "classification_agent"
router_check_default_teacher(state) ==
  IF "current_agent" \in DOMAIN state THEN state.current_agent
                                      ELSE "teacher_agent"
router_check(state) ==
  IF "current_agent" \in DOMAIN state THEN state.current_agent
                                      ELSE "classification_agent"

\* the branch's result looked up in its path map; a name outside it raises
KeyError == "__KeyError__"
BranchTargetFallback(route) ==
  IF route \in PathMap THEN route ELSE "classification_agent"
BranchTarget(route) ==
  IF route \in PathMap THEN route ELSE KeyError

\* the add_messages reducer of MessagesState: new messages are appended
add_messages_replace(left, right) == right
add_messages(left, right) == left \o right

\* a node's partial update merged into the channels
ApplyUpdate(state, upd) ==
  LET msgs == add_messages(state.messages, upd.messages) IN
  IF "current_agent" \in DOMAIN upd
    THEN [messages |-> msgs, current_agent |-> upd.current_agent]
    ELSE IF "current_agent" \in DOMAIN state
      THEN [messages |-> msgs, current_agent |-> state.current_agent]
      ELSE [messages |-> msgs]

\* the node that runs after `node`: classification_agent has its edge to END,
\* the other three nodes have no outgoing edge and end the run as well
SuccessorChained(node, state) ==
  IF node = "classification_agent" /\ "current_agent" \in DOMAIN state
       /\ state.current_agent \in Destinations
    THEN state.current_agent
    ELSE END
Successor(node, state) == END

\* what an agent may return: no message or one assistant message, and for the
\* classifier the agent it hands the next turn to, for the others either
\* nothing or control handed back to the classifier
AgentUpdates(name) ==
  LET msgs == {<<>>} \cup {<<AIMessage(r)>> : r \in Replies}
      targets == IF name = "classification_agent" THEN Destinations
                                                  ELSE {"classification_agent"}
  IN  {[messages |-> m] : m \in msgs}
      \cup {[messages |-> m, current_agent |-> a] : m \in msgs, a \in targets}

\* the checkpointer: the whole channel state replaces the thread's record
GetCheckpointMessagesOnly(st, thread_id) == [messages |-> st[thread_id].messages]
GetCheckpoint(st, thread_id) == st[thread_id]
PutCheckpointShared(st, thread_id, state) == [s \in DOMAIN st |-> state]
PutCheckpointAppend(st, thread_id, state) ==
  [st EXCEPT ![thread_id] =
     IF Len(@.messages) >= Len(state.messages)
       THEN [state EXCEPT !.messages = st[thread_id].messages
                                        \o <<state.messages[Len(state.messages)]>>]
       ELSE state]
PutCheckpoint(st, thread_id, state) == [st EXCEPT ![thread_id] = state]

\* ------------------------------------------------------- the chat endpoint

\* request.session_id or str(uuid.uuid4())
Falsy(x) == x = None \/ x = ""
NeedsUuid(reqSid) == Falsy(reqSid)
EffectiveSessionId(reqSid, gen) ==
  IF NeedsUuid(reqSid) THEN UuidPool[gen + 1] ELSE reqSid

\* messages = result.get("messages", []); response = messages[-1].content
ExtractResponse(result) ==
  IF result.messages = <<>>
    THEN [ok |-> FALSE, response |-> ""]
    ELSE [ok |-> TRUE, response |-> result.messages[Len(result.messages)].content]

\* ids a client can send: its own, or one a response gave it earlier
KnownIds == ClientIds \cup {UuidPool[i] : i \in 1..nextGen}

\* graph invocations started so far
RECURSIVE SumOver(_, _)
SumOver(f, S) ==
  IF S = {} THEN 0
  ELSE LET x == CHOOSE y \in S : TRUE IN f[x] + SumOver(f, S \ {x})
Invocations == SumOver(count, SessionIds)

\* no GET /health has been answered yet
NoHealth ==
  [code |-> 0, body |-> FALSE, status |-> "", graph_available |-> FALSE,
   checkpoint_available |-> FALSE, error |-> ""]

\* the WebSocket objects of the connections clients open
WebSockets == {"wa", "wb", "wc"}
Messages == {"m1"}

NoOp == [op |-> "none", ws |-> None, before |-> <<>>, ok |-> TRUE, error |-> ""]
NoBroadcast ==
  [phase |-> "idle", message |-> "", skip |-> None, idx |-> 0,
   start |-> <<>>, stayed |-> {}, delivered |-> <<>>]

InitRest ==
  /\ health = NoHealth
  /\ accepted = [ws \in WebSockets |-> FALSE]
  /\ active_connections = <<>>
  /\ bc = NoBroadcast
  /\ prevOp = NoOp
  /\ lastOp = NoOp
  /\ endpoint = [ws \in WebSockets |-> "none"]
  /\ inv = [w \in Workers |-> IdleInv]
  /\ nextGen = 0
  /\ count = [s \in SessionIds |-> 0]
  /\ completed = [s \in SessionIds |-> 0]
  /\ sequential = [s \in SessionIds |-> TRUE]
  /\ lastPut = store

\* memory.db is created empty
Init ==
  /\ graph = WithCheckpointer
  /\ store = [s \in SessionIds |-> EmptyState]
  /\ InitRest

\* POST /chat rejected by apply_rate_limit: nothing is read or written
RateLimited(w) ==
  /\ inv[w].pc = "idle"
  /\ UNCHANGED vars

\* POST /chat up to the first await of graph.ainvoke: the session id is
\* resolved, the rate limit passed, the thread's checkpoint read
ChatRequest(w) ==
  /\ inv[w].pc = "idle"
  /\ graph = WithCheckpointer
  /\ Invocations < MaxInvocations
  /\ \E reqSid \in KnownIds \cup {None, ""}, prompt \in Prompts :
       /\ NeedsUuid(reqSid) => nextGen < Len(UuidPool)
       /\ LET sid == EffectiveSessionId(reqSid, nextGen)
              overlaps == \E v \in Workers : InFlight(v) /\ inv[v].session_id = sid
          IN
          /\ nextGen' = IF NeedsUuid(reqSid) THEN nextGen + 1 ELSE nextGen
          /\ inv' = [inv EXCEPT ![w] =
               [IdleInv EXCEPT !.pc = "loaded", !.reqSid = reqSid,
                               !.prompt = prompt, !.session_id = sid,
                               !.state = GetCheckpoint(store, sid),
                               !.pre = GetCheckpoint(store, sid),
                               !.expected = lastPut[sid]]]
          /\ count' = [count EXCEPT ![sid] = @ + 1]
          /\ sequential' = [sequential EXCEPT ![sid] = @ /\ ~overlaps]
  /\ UNCHANGED <<store, completed, lastPut>>
  /\ UNCHANGED auxVars

\* first super-step: the input is written to the channels and the START
\* branch calls router_check; a name outside the path map raises
StartStep(w) ==
  /\ inv[w].pc = "loaded"
  /\ LET r == inv[w]
         state == ApplyUpdate(r.state, [messages |-> <<HumanMessage(r.prompt)>>])
         route == router_check(state)
         target == BranchTarget(route)
     IN IF target # KeyError
          THEN /\ inv' = [inv EXCEPT ![w].pc = "running", ![w].state = state,
                                     ![w].routes = Append(@, route),
                                     ![w].next = target]
               /\ store' = PutCheckpoint(store, r.session_id, state)
               /\ lastPut' = [lastPut EXCEPT ![r.session_id] = state]
          ELSE /\ inv' = [inv EXCEPT ![w].pc = "failed",
                                     ![w].routes = Append(@, route),
                                     ![w].error = "unknown_agent"]
               /\ UNCHANGED <<store, lastPut>>
  /\ UNCHANGED <<nextGen, count, completed, sequential>>
  /\ UNCHANGED auxVars

\* the selected node raises: ainvoke raises, the endpoint answers 500
NodeRaises(w) ==
  /\ inv[w].pc = "running"
  /\ inv' = [inv EXCEPT ![w].pc = "failed",
                        ![w].handlers = Append(@, inv[w].next),
                        ![w].error = "generation_failure"]
  /\ UNCHANGED <<store, nextGen, count, completed, sequential, lastPut>>
  /\ UNCHANGED auxVars

\* the selected node returns: its update is merged and checkpointed; when no
\* node follows, ainvoke returns the channel values and the endpoint answers
NodeReturns(w) ==
  /\ inv[w].pc = "running"
  /\ \E upd \in AgentUpdates(inv[w].next) :
       LET r == inv[w]
           state == ApplyUpdate(r.state, upd)
           succ == Successor(r.next, state)
           out == ExtractResponse(state)
           answered == succ = END /\ out.ok
       IN /\ store' = PutCheckpoint(store, r.session_id, state)
          /\ lastPut' = [lastPut EXCEPT ![r.session_id] = state]
          /\ inv' = [inv EXCEPT ![w] =
               [r EXCEPT !.state = state,
                         !.handlers = Append(@, r.next),
                         !.next = succ,
                         !.pc = IF succ # END THEN "running"
                                ELSE IF out.ok THEN "done" ELSE "failed",
                         !.response = IF answered THEN out.response ELSE "",
                         !.error = IF succ = END /\ ~out.ok THEN "no_response" ELSE ""]]
          /\ completed' = IF answered
                            THEN [completed EXCEPT ![r.session_id] = @ + 1]
                            ELSE completed
  /\ UNCHANGED <<nextGen, count, sequential>>
  /\ UNCHANGED auxVars

\* the response (or the 500) has been sent: the worker is free again
Return(w) ==
  /\ inv[w].pc \in {"done", "failed"}
  /\ inv' = [inv EXCEPT ![w] = IdleInv]
  /\ UNCHANGED <<store, nextGen, count, completed, sequential, lastPut>>
  /\ UNCHANGED auxVars

Next ==
  \E w \in Workers :
    \/ RateLimited(w)
    \/ ChatRequest(w)
    \/ StartStep(w)
    \/ NodeRaises(w)
    \/ NodeReturns(w)
    \/ Return(w)

Spec == Init /\ [][Next]_vars

\* a checkpoint of session s1 that names an agent the graph does not register
ForcedStates ==
  {[messages |-> <<>>, current_agent |-> "rogue_agent"],
   [messages |-> <<HumanMessage("p1"), AIMessage("r1")>>,
    current_agent |-> "rogue_agent"]}

InitForced ==
  /\ graph = WithCheckpointer
  /\ store \in {[s \in SessionIds |-> IF s = "s1" THEN f ELSE EmptyState] :
                  f \in ForcedStates}
  /\ InitRest

SpecForced == InitForced /\ [][Next]_vars

\* ------------------------------------------------------------ GET /health

\* HTTPException(status_code=503, detial=...) in the except clause: detial is
\* no parameter of HTTPException, so building it raises TypeError, which leaves
\* the endpoint; the server answers 500 without the checks
ExceptClause(e) ==
  [code |-> 500, body |-> FALSE, status |-> "", graph_available |-> FALSE,
   checkpoint_available |-> FALSE, error |-> "TypeError"]

health_check(g) ==
  LET graph_available == g # NoGraph
      checkpoint_available == graph_available /\ g # WithoutCheckpointer
      checks == [code |-> 200, body |-> TRUE, status |-> "healthy",
                 graph_available |-> graph_available,
                 checkpoint_available |-> checkpoint_available, error |-> ""]
  IN IF ~graph_available \/ ~checkpoint_available
       \* raise HTTPException(status_code=503, detail=checks) inside the try:
       \* HTTPException is an Exception, the except clause catches it
       THEN ExceptClause([checks EXCEPT !.code = 503, !.status = "degraded"])
       ELSE checks

HealthCheck ==
  /\ health' = health_check(graph)
  /\ UNCHANGED <<chatVars, graph, mgrVars, endpoint>>

InitHealth ==
  /\ graph \in GraphObjects
  /\ store = [s \in SessionIds |-> EmptyState]
  /\ InitRest

NextHealth ==
  \/ HealthCheck
  \/ Next

SpecHealth == InitHealth /\ [][NextHealth]_vars

\* --------------------------------- ConnectionManager (websocket_manager.py)

Range(seq) == {seq[i] : i \in 1..Len(seq)}

\* list.remove(x): the first occurrence of x is taken out
list_remove_last(list, x) == SubSeq(list, 1, Len(list) - 1)
list_remove(list, x) ==
  LET k == CHOOSE i \in 1..Len(list) :
             list[i] = x /\ \A j \in 1..(i - 1) : list[j] # x
  IN SubSeq(list, 1, k - 1) \o SubSeq(list, k + 1, Len(list))

\* connect: websocket.accept(), which raises on a websocket that has been
\* accepted already, then the websocket is appended
Connect(ws) ==
  /\ prevOp' = lastOp
  /\ IF accepted[ws]
       THEN /\ lastOp' = [op |-> "connect", ws |-> ws, before |-> active_connections,
                          ok |-> FALSE, error |-> "RuntimeError"]
            /\ UNCHANGED <<accepted, active_connections>>
       ELSE /\ accepted' = [accepted EXCEPT ![ws] = TRUE]
            /\ active_connections' = Append(active_connections, ws)
            /\ lastOp' = [op |-> "connect", ws |-> ws, before |-> active_connections,
                          ok |-> TRUE, error |-> ""]
  /\ UNCHANGED <<chatVars, graph, health, bc, endpoint>>

\* disconnect: list.remove raises ValueError when the websocket is not there
Disconnect(ws) ==
  /\ prevOp' = lastOp
  /\ IF ws \in Range(active_connections)
       THEN /\ active_connections' = list_remove(active_connections, ws)
            /\ lastOp' = [op |-> "disconnect", ws |-> ws,
                          before |-> active_connections, ok |-> TRUE, error |-> ""]
            /\ bc' = [bc EXCEPT !.stayed = @ \ {ws}]
       ELSE /\ lastOp' = [op |-> "disconnect", ws |-> ws,
                          before |-> active_connections, ok |-> FALSE,
                          error |-> "ValueError"]
            /\ UNCHANGED <<active_connections, bc>>
  /\ UNCHANGED <<chatVars, graph, health, accepted, endpoint>>

\* the for loop of broadcast from one await to the next: the list iterator
\* holds the count idx of items it has yielded and reads the list as it is
\* now; an item that is skip is passed over, the next other item is sent to
NextTarget(list, idx, skip) ==
  LET rest == {j \in (idx + 1)..Len(list) : list[j] # skip}
  IN IF rest = {} THEN 0 ELSE CHOOSE j \in rest : \A k \in rest : j <= k

RunLoop(b, list) ==
  LET j == NextTarget(list, b.idx, b.skip)
  IN IF j = 0
       THEN [b EXCEPT !.phase = "done", !.idx = Len(list)]
       ELSE [b EXCEPT !.phase = "sending", !.idx = j,
                      !.delivered = Append(@, list[j])]

\* broadcast(message, skip) is called and runs to its first send_text
BroadcastStart(message, skip) ==
  /\ bc.phase = "idle"
  /\ bc' = RunLoop([NoBroadcast EXCEPT !.message = message, !.skip = skip,
                                       !.start = active_connections,
                                       !.stayed = Range(active_connections)],
                   active_connections)
  /\ UNCHANGED <<chatVars, graph, health, accepted, active_connections,
                 prevOp, lastOp, endpoint>>

\* the awaited send_text has finished: the loop goes on to the next one
BroadcastStep ==
  /\ bc.phase = "sending"
  /\ bc' = RunLoop(bc, active_connections)
  /\ UNCHANGED <<chatVars, graph, health, accepted, active_connections,
                 prevOp, lastOp, endpoint>>

\* broadcast has returned to its caller
BroadcastReturn ==
  /\ bc.phase = "done"
  /\ bc' = NoBroadcast
  /\ UNCHANGED <<chatVars, graph, health, accepted, active_connections,
                 prevOp, lastOp, endpoint>>

NextManager ==
  \/ \E ws \in WebSockets : Connect(ws)
  \/ \E ws \in WebSockets : Disconnect(ws)
  \/ \E message \in Messages, skip \in WebSockets \cup {None} :
       BroadcastStart(message, skip)
  \/ BroadcastStep
  \/ BroadcastReturn

SpecManager == Init /\ [][NextManager]_vars

\* ---------------------------------- websocket_endpoint (src/api/main.py)

\* the attributes of the manager object of src/api/main.py: its class body
\* holds __init__ alone, the four functions are defined inside __init__ and
\* are locals of that call
ManagerAttributes == {"active_connections"}

\* a client opens /ws/chat/{session_id}: the handler's first statement looks
\* up manager.connect and ends with AttributeError before accept, before any
\* receive_text and before any graph invocation
websocket_endpoint(ws) ==
  /\ endpoint[ws] = "none"
  /\ "connect" \notin ManagerAttributes
  /\ endpoint' = [endpoint EXCEPT ![ws] = "AttributeError"]
  /\ UNCHANGED <<chatVars, graph, health, mgrVars>>

NextEndpoint ==
  \/ \E ws \in WebSockets : websocket_endpoint(ws)
  \/ Next

SpecEndpoint == Init /\ [][NextEndpoint]_vars

\* ------------------------------------------------------------- the claims

HasAgent(state) == "current_agent" \in DOMAIN state
Settled(w) == inv[w].pc \in {"done", "failed"}
Routed(w) == inv[w].routes # <<>>
UserTurn(w) == HumanMessage(inv[w].prompt)
\* the node of this invocation returned without appending a message
NoNewTurn(w) ==
  /\ Settled(w)
  /\ inv[w].handlers # <<>>
  /\ inv[w].error # "generation_failure"
  /\ inv[w].state.messages = inv[w].pre.messages \o <<UserTurn(w)>>
AssistantIndexes(msgs) == {i \in 1..Len(msgs) : msgs[i].role = "assistant"}
Max(S) == CHOOSE x \in S : \A y \in S : y <= x

\* C1: after k invocations of a session, processed one after another and each
\* answered, the session's stored messages are 2k turns, user and assistant
\* alternating.
HistoryAccumulation ==
  \A s \in SessionIds :
    (sequential[s] /\ completed[s] = count[s]) =>
      /\ Len(store[s].messages) = 2 * count[s]
      /\ \A i \in 1..Len(store[s].messages) :
           store[s].messages[i].role = IF i % 2 = 1 THEN "user" ELSE "assistant"

\* C2: the router returns current_agent when the loaded state has one and
\* classification_agent when it has none (so always for a session with no
\* stored state), and routing leaves the state as it was: the loaded state
\* plus the user's turn.
RouterReturnsCurrentAgentOrClassifier ==
  \A w \in Workers :
    Routed(w) =>
      /\ inv[w].routes[1] = IF HasAgent(inv[w].pre) THEN inv[w].pre.current_agent
                                                  ELSE "classification_agent"
      /\ inv[w].pre = EmptyState => inv[w].routes[1] = "classification_agent"
      /\ (inv[w].pc = "running" /\ inv[w].handlers = <<>>) =>
           /\ inv[w].state.messages = inv[w].pre.messages \o <<UserTurn(w)>>
           /\ HasAgent(inv[w].state) = HasAgent(inv[w].pre)
           /\ HasAgent(inv[w].pre) =>
                inv[w].state.current_agent = inv[w].pre.current_agent

RouterWitness ==
  \E w \in Workers :
    /\ inv[w].pc = "running"
    /\ HasAgent(inv[w].pre)
    /\ inv[w].pre.current_agent = "quiz_agent"
    /\ inv[w].routes = <<"quiz_agent">>

\* C3: when the stored state of a session names a registered agent other than
\* the classifier, the next invocation of the session dispatches to that
\* agent's node, and the classifier's node does not run in it.
StickyRouting ==
  \A w \in Workers :
    (/\ inv[w].pc \in {"running", "done", "failed"}
     /\ HasAgent(inv[w].pre)
     /\ inv[w].pre.current_agent \in Agents \ {"classification_agent"}) =>
      /\ inv[w].pc = "running" =>
           inv[w].handlers = <<>> /\ inv[w].next = inv[w].pre.current_agent
      /\ inv[w].pc # "running" => inv[w].handlers = <<inv[w].pre.current_agent>>
      /\ \A i \in 1..Len(inv[w].handlers) :
           inv[w].handlers[i] # "classification_agent"

StickyWitness ==
  \E w \in Workers :
    /\ inv[w].pc = "done"
    /\ HasAgent(inv[w].pre)
    /\ inv[w].pre.current_agent = "teacher_agent"
    /\ inv[w].handlers = <<"teacher_agent">>

NoResponseFailsAndPersistsNothing ==
  \A w \in Workers :
    NoNewTurn(w) =>
      /\ inv[w].pc = "failed"
      /\ inv[w].error = "no_response"
      /\ sequential[inv[w].session_id] => store[inv[w].session_id] = inv[w].pre

\* C6: when the stored current_agent of a session is not a registered agent,
\* the next invocation of the session fails on the unknown name, runs no node,
\* does not route to the classifier, and leaves the stored state as it was.
UnknownAgentAborts ==
  \A w \in Workers :
    (/\ inv[w].pc \in {"running", "done", "failed"}
     /\ HasAgent(inv[w].pre)
     /\ inv[w].pre.current_agent \notin Agents) =>
      /\ inv[w].pc = "failed"
      /\ inv[w].error = "unknown_agent"
      /\ inv[w].handlers = <<>>
      /\ inv[w].routes = <<inv[w].pre.current_agent>>
      /\ store[inv[w].session_id] = inv[w].pre

UnknownAgentWitness ==
  \E w \in Workers :
    /\ inv[w].pc = "failed"
    /\ inv[w].error = "unknown_agent"
    /\ inv[w].pre.messages # <<>>
    /\ inv[w].pre.current_agent = "rogue_agent"

\* C7: when the node of an invocation raises, the session's stored state is
\* what it was before the invocation: the user's turn is not stored.
FailureLeavesStoreUntouched ==
  \A w \in Workers :
    (/\ inv[w].pc = "failed"
     /\ inv[w].error = "generation_failure"
     /\ sequential[inv[w].session_id]) =>
      store[inv[w].session_id] = inv[w].pre

ChatReturnsNewestAssistantTurn ==
  \A w \in Workers :
    inv[w].pc = "done" =>
      LET msgs == inv[w].state.messages IN
      /\ AssistantIndexes(msgs) # {}
      /\ inv[w].response = msgs[Max(AssistantIndexes(msgs))].content
      /\ msgs[Len(msgs)].role = "assistant"
      /\ inv[w].reqSid # None => inv[w].session_id = inv[w].reqSid
      /\ inv[w].reqSid = None => inv[w].session_id \in GeneratedIds

\* C10: a step of an invocation changes the stored state of no session but
\* its own.
SessionIsolation ==
  [][\A s \in SessionIds :
       store'[s] # store[s] =>
         \E w \in Workers :
           /\ InFlight(w)
           /\ inv[w].session_id = s
           /\ inv'[w] # inv[w]]_vars

SessionIsolationWitness ==
  \E w, v \in Workers :
    /\ inv[w].pc = "running" /\ inv[v].pc = "done"
    /\ inv[w].session_id # inv[v].session_id
    /\ store[inv[w].session_id].messages # <<>>
    /\ store[inv[v].session_id].messages # <<>>

\* C11: two invocations of one session that both load the stored state before
\* either writes end with the record of the later writer alone: of the two
\* user turns only one is stored.
UserTurns(msgs) == Cardinality({i \in 1..Len(msgs) : msgs[i].role = "user"})
Raced(w, v) ==
  /\ w # v
  /\ Settled(w) /\ Settled(v)
  /\ inv[w].handlers # <<>> /\ inv[v].handlers # <<>>
  /\ inv[w].session_id = inv[v].session_id
  /\ inv[w].pre = inv[v].pre
  /\ count[inv[w].session_id] = 2
LostUpdate ==
  \A w, v \in Workers :
    Raced(w, v) =>
      LET s == inv[w].session_id IN
      /\ store[s] \in {inv[w].state, inv[v].state}
      /\ UserTurns(store[s].messages) = UserTurns(inv[w].pre.messages) + 1
      /\ Len(store[s].messages) <= Len(inv[w].pre.messages) + 2

LostUpdateWitness ==
  \E w, v \in Workers :
    /\ Raced(w, v)
    /\ inv[w].pc = "done" /\ inv[v].pc = "done"
    /\ inv[w].prompt = "p1" /\ inv[v].prompt = "p2"
    /\ store[inv[w].session_id].messages = <<HumanMessage("p2"), AIMessage("r1")>>

\* C13: over invocations of a session processed one after another, the
\* messages stored before an invocation are a prefix of the messages stored
\* after it: no stored turn is deleted, reordered or modified.
IsPrefix(a, b) == Len(a) <= Len(b) /\ SubSeq(b, 1, Len(a)) = a
AppendOnly ==
  \A w \in Workers :
    (inv[w].pc # "idle" /\ sequential[inv[w].session_id]) =>
      IsPrefix(inv[w].pre.messages, store[inv[w].session_id].messages)

AppendOnlyWitness ==
  \E w \in Workers :
    /\ inv[w].pc = "done"
    /\ sequential[inv[w].session_id]
    /\ Len(inv[w].pre.messages) = 2
    /\ Len(store[inv[w].session_id].messages) = 4

HealthReportsDegraded ==
  health # NoHealth =>
    /\ health.body =>
         /\ health.graph_available = (graph # NoGraph)
         /\ health.checkpoint_available = (graph = WithCheckpointer)
    /\ health.status = "healthy" => graph = WithCheckpointer
    /\ graph # WithCheckpointer =>
         /\ health.body
         /\ health.status = "degraded"
         /\ health.code >= 400

\* the number of times x occurs in seq
Occurrences(seq, x) == Cardinality({i \in 1..Len(seq) : seq[i] = x})

\* seq with the item at position k taken out
Without(seq, k) == SubSeq(seq, 1, k - 1) \o SubSeq(seq, k + 1, Len(seq))

\* C17: when broadcast(message, skip) has run through, every connection that
\* was in active_connections from its start to its end and is not skip has
\* been sent the message exactly once, in list order, and skip has been sent
\* nothing.
BroadcastReachesAllButSkip ==
  bc.phase = "done" =>
    /\ \A c \in bc.stayed \cap Range(active_connections) :
         Occurrences(bc.delivered, c) = (IF c = bc.skip THEN 0 ELSE 1)
    /\ Occurrences(bc.delivered, bc.skip) = 0

\* C18: a disconnect of a websocket that is in the list takes out exactly one
\* occurrence of it and keeps the others in their order; a connect followed
\* at once by a disconnect of the same websocket gives back the list as it
\* was; a disconnect of a websocket that is not in the list raises ValueError
\* and leaves the list as it was.
DisconnectRemovesOne ==
  /\ (lastOp.op = "disconnect" /\ lastOp.ok) =>
       /\ \E k \in 1..Len(lastOp.before) :
            /\ lastOp.before[k] = lastOp.ws
            /\ active_connections = Without(lastOp.before, k)
       /\ Occurrences(active_connections, lastOp.ws)
            = Occurrences(lastOp.before, lastOp.ws) - 1
  /\ (lastOp.op = "disconnect" /\ ~lastOp.ok) =>
       /\ lastOp.ws \notin Range(lastOp.before)
       /\ lastOp.error = "ValueError"
       /\ active_connections = lastOp.before
  /\ (lastOp.op = "disconnect" /\ lastOp.ok
        /\ prevOp.op = "connect" /\ prevOp.ok /\ prevOp.ws = lastOp.ws) =>
       active_connections = prevOp.before

DisconnectWitness ==
  /\ lastOp.op = "disconnect" /\ lastOp.ok
  /\ prevOp.op = "connect" /\ prevOp.ok /\ prevOp.ws = lastOp.ws
  /\ Len(active_connections) = 2
====
